---- MODULE Spec2Model ----
(***************************************************************************)
(* Model of gml-weather: the circular direction interpolator and the       *)
(* bracket/nearest engine of met.py, and the day cache, batch enrichment   *)
(* driver and per-site orchestrator of met_comp.py.                        *)
(*                                                                         *)
(* Units.  Time of day is counted in ticks, TicksPerHour ticks to the hour.*)
(* Wind speed is kept in thousandths of a m/s and direction in thousandths *)
(* of a degree (the three decimals save_comparison_csv writes).            *)
(***************************************************************************)
EXTENDS Integers, Sequences, FiniteSets, TLC

\* Absent values.  TLC compares only values of one kind, so each kind has
\* its own: a number that no speed or direction takes, the empty tuple, a
\* timestamp on no day, and a string that names no exception.
null == -1                          \* JSON null in the hourly arrays
NA == -2                            \* pandas NA in a result cell
None == << >>                       \* Python None where a tuple is expected
NaT == [day |-> 0, tick |-> 0]      \* a missing timestamp
NoError == "none"                   \* nothing raised

----------------------------------------------------------------------------
(* Bounds of the model *)

NumPoints == 3      \* samples in one provider response (24 in production)
TicksPerHour == 2   \* resolution of a timestamp inside a day
NumDays == 2        \* distinct UTC calendar dates in the archive
MaxObs == 2         \* archive rows per site
NumSites == 2       \* sites the orchestrator iterates (5 in production)
MaxRuns == 2        \* invocations of the orchestrator
CountCap == 2       \* the highest count the history of provider calls keeps

----------------------------------------------------------------------------
(* IEEE-754 doubles, to first order.                                       *)
(*                                                                         *)
(* A direction that is a multiple of 90 degrees, dir = 90*k, is converted  *)
(* by math.radians to k*(pi/2 - e0) with e0 = 6.1232e-17 the rounding      *)
(* error of the double nearest pi/2.  Its cosine and sine are therefore    *)
(* -1, 0 or 1 plus a residue that is a whole multiple of e0:               *)
(*   cos(radians(90)) = 1*e0, sin(radians(180)) = 2*e0,                    *)
(*   cos(radians(270)) = -3*e0, sin(radians(360)) = -4*e0, ...             *)
(* A double is written [m |-> main part, e |-> residue in units of e0];    *)
(* the residue is only significant when the main part is 0 (next to a      *)
(* non-zero main part it is below half an ulp and is rounded away).        *)

Abs(n) == IF n < 0 THEN -n ELSE n

\* math.cos(math.radians(90*k))
CosQ(k) ==
    CASE k % 4 = 0 -> [m |-> 1, e |-> 0]
      [] k % 4 = 1 -> [m |-> 0, e |-> k]
      [] k % 4 = 2 -> [m |-> -1, e |-> 0]
      [] k % 4 = 3 -> [m |-> 0, e |-> -k]

\* math.sin(math.radians(90*k))
SinQ(k) ==
    CASE k % 4 = 0 -> [m |-> 0, e |-> -k]
      [] k % 4 = 1 -> [m |-> 1, e |-> 0]
      [] k % 4 = 2 -> [m |-> 0, e |-> k]
      [] k % 4 = 3 -> [m |-> -1, e |-> 0]

\* math.degrees(math.atan(b/a)) for 0 <= b <= a, 1 <= a <= 12, in
\* thousandths of a degree: AtanTable[a][b+1]
AtanTable ==
    << <<0, 45000>>,
       <<0, 26565, 45000>>,
       <<0, 18435, 33690, 45000>>,
       <<0, 14036, 26565, 36870, 45000>>,
       <<0, 11310, 21801, 30964, 38660, 45000>>,
       <<0, 9462, 18435, 26565, 33690, 39806, 45000>>,
       <<0, 8130, 15945, 23199, 29745, 35538, 40601, 45000>>,
       <<0, 7125, 14036, 20556, 26565, 32005, 36870, 41186, 45000>>,
       <<0, 6340, 12529, 18435, 23962, 29055, 33690, 37875, 41634, 45000>>,
       <<0, 5711, 11310, 16699, 21801, 26565, 30964, 34992, 38660, 41987, 45000>>,
       <<0, 5194, 10305, 15255, 19983, 24444, 28610, 32471, 36027, 39289, 42274, 45000>>,
       <<0, 4764, 9462, 14036, 18435, 22620, 26565, 30256, 33690, 36870, 39806, 42510, 45000>> >>

\* atan(b/a) in the first octant, 0 <= b <= a, a > 0
AtanOctant(b, a) ==
    IF b = 0 THEN 0
    ELSE IF b = a THEN 45000
    ELSE AtanTable[a][b + 1]

\* atan(b/a) in the first quadrant, a >= 0, b >= 0, not both 0
AtanQuadrant(b, a) ==
    IF b <= a THEN AtanOctant(b, a) ELSE 90000 - AtanOctant(a, b)

\* math.degrees(math.atan2(y, x)) for whole y, x: a value in (-180, 180],
\* in thousandths of a degree; atan2(0, 0) = 0
Atan2Milli(y, x) ==
    CASE y = 0 /\ x >= 0 -> 0
      [] y = 0 /\ x < 0 -> 180000
      [] y > 0 /\ x > 0 -> AtanQuadrant(y, x)
      [] y > 0 /\ x <= 0 -> 90000 + AtanQuadrant(-x, y)
      [] y < 0 /\ x < 0 -> AtanQuadrant(-y, -x) - 180000
      [] y < 0 /\ x >= 0 -> AtanQuadrant(x, -y) - 90000

\* math.degrees(math.atan2(y, x)) for doubles y, x: the angle is
\* mdeg thousandths of a degree plus n/d units of u = degrees(e0) = 3.5084e-15
\* degree; the residue n/d is kept only next to mdeg = 0
Atan2Deg(y, x) ==
    IF y.m = 0 /\ x.m = 0
    THEN [mdeg |-> Atan2Milli(y.e, x.e), n |-> 0, d |-> 1]
    ELSE IF y.m = 0 /\ x.m > 0
    THEN [mdeg |-> 0, n |-> y.e, d |-> x.m]
    ELSE [mdeg |-> Atan2Milli(y.m, x.m), n |-> 0, d |-> 1]

\* Half the distance between 360.0 and the double below it (2^-45 degree),
\* in tenths of u: 2.8422e-14 / 3.5084e-15 = 8.1
HalfUlpTenths == 81

\* ang % 360 on doubles, |ang| <= 180: Python computes fmod(ang, 360) = ang
\* and, when that is non-zero and negative, adds 360 and rounds the sum to
\* the nearest double.  The result is in thousandths of a degree, rounded
\* down, so that 360000 stands for the double 360.0 itself.
FloatMod360(ang) ==
    IF ang.mdeg > 0 \/ (ang.mdeg = 0 /\ ang.n >= 0) THEN ang.mdeg
    ELSE IF ang.mdeg < 0 THEN ang.mdeg + 360000
    ELSE IF 10 * (-ang.n) <= HalfUlpTenths * ang.d THEN 360000
    ELSE 359999

\* interp_direction_deg(dir1, dir2, frac) for dir1, dir2 whole multiples of
\* 90 degrees and frac = f[1]/f[2], f[2] > 0.  x and y are carried scaled by
\* f[2], which leaves atan2(y, x) unchanged.
interp_direction_deg(dir1, dir2, f) ==
    LET k1 == dir1 \div 90
        k2 == dir2 \div 90
        w1 == f[2] - f[1]
        w2 == f[1]
        x == [m |-> w1 * CosQ(k1).m + w2 * CosQ(k2).m,
              e |-> w1 * CosQ(k1).e + w2 * CosQ(k2).e]
        y == [m |-> w1 * SinQ(k1).m + w2 * SinQ(k2).m,
              e |-> w1 * SinQ(k1).e + w2 * SinQ(k2).e]
    IN FloatMod360(Atan2Deg(y, x))

----------------------------------------------------------------------------
(* The hourly series of one UTC day and the bracket/nearest engine *)

\* Hourly sample times of a day, in ticks: hour h is tick h * TicksPerHour
Hours == 1..NumPoints
Ticks == 0..((NumPoints + 1) * TicksPerHour)

\* (wind_speed_10m, wind_direction_10m) of one hour; null marks a gap
Payloads ==
    { [ws |-> 5, wd |-> 0], [ws |-> 7, wd |-> 90],
      [ws |-> null, wd |-> 90], [ws |-> 5, wd |-> null] }

Samples == { [t |-> h * TicksPerHour, ws |-> p.ws, wd |-> p.wd] : h \in Hours, p \in Payloads }

\* A provider response: NumPoints samples in ascending (not necessarily
\* strictly ascending) time order
SeriesSet ==
    { s \in [1..NumPoints -> Samples] : \A j \in 1..(NumPoints - 1) : s[j].t <= s[j + 1].t }

Min(S) == CHOOSE x \in S : \A y \in S : x <= y

valid_points(series) == SelectSeq(series, LAMBDA p : p.ws # null /\ p.wd # null)

\* (1 - frac) * ws0 + frac * ws1 with frac = p/q, in thousandths of a m/s
speed_interp(ws0, ws1, p, q) == (((q - p) * ws0 + p * ws1) * 1000) \div q

\* min(range(len(valid_points)), key=|t - target|): the first index of least distance
nearest_idx(vp, target) ==
    Min({ j \in 1..Len(vp) :
            \A k \in 1..Len(vp) : Abs(vp[j].t - target) <= Abs(vp[k].t - target) })

\* The engine of met.py main, with the two values met_comp.py unpacks from
\* it: interpolated = <<t0, t1, speed, direction>> or None, and
\* nearest = <<t, speed, direction>>.  raised names the exception that ends
\* the computation, NoError when it completes.
interpolate_wind(series, target) ==
    LET vp == valid_points(series)
        brackets == { j \in 1..(Len(vp) - 1) : vp[j].t <= target /\ target <= vp[j + 1].t }
    IN IF Len(vp) < 2
       THEN [raised |-> "SystemExit", interpolated |-> None, nearest |-> None]
       ELSE IF brackets # {} /\ vp[Min(brackets) + 1].t = vp[Min(brackets)].t
       THEN [raised |-> "ZeroDivisionError", interpolated |-> None, nearest |-> None]
       ELSE LET n == vp[nearest_idx(vp, target)]
                near == << n.t, n.ws * 1000, n.wd * 1000 >>
            IN IF brackets = {}
               THEN [raised |-> NoError, interpolated |-> None, nearest |-> near]
               ELSE LET p0 == vp[Min(brackets)]
                        p1 == vp[Min(brackets) + 1]
                        f == << target - p0.t, p1.t - p0.t >>
                    IN [raised |-> NoError,
                        interpolated |-> << p0.t, p1.t,
                                            speed_interp(p0.ws, p1.ws, f[1], f[2]),
                                            interp_direction_deg(p0.wd, p1.wd, f) >>,
                        nearest |-> near]

----------------------------------------------------------------------------
(* met_comp.py: state *)

VARIABLES
    pc,         \* "idle", "loop" (main's for loop), "enrich" (the loop of
                \* enrich_site_with_api), "exited", "crashed" (main), "returned",
                \* "raised" (enrich_site_with_api called directly)
    runs,       \* invocations started so far
    idx,        \* position of main's loop in sites
    site,       \* the site being enriched
    site_df,    \* its observation timestamps, in row order
    i,          \* rows enrich_site_with_api has processed
    api_data,   \* the (speed, direction) pairs collected so far
    day_cache,  \* (site, date) -> hourly series
    csv,        \* results/<site>_gml_comparison.csv: absent, or its column scheme
    plots,      \* sites whose comparison plots have been written
    raised,     \* the exception that ended the last invocation
    fetches,    \* history: provider calls per key in this process
    failed,     \* history: keys for which a provider call has failed
    last,       \* history: the latest lookup of the enrichment in progress
    had,        \* history: sites whose artifact existed when the run started
    enriched,   \* history: sites enrich_site_with_api was invoked for in this run
    reported,   \* history: the row counts progress was printed at
    arg,        \* input of a pure function under test
    ret         \* value returned by enrich_site_with_api or by a pure function

vars == << pc, runs, idx, site, site_df, i, api_data, day_cache, csv, plots, raised,
           fetches, failed, last, had, enriched, reported, arg, ret >>

AllSites == << "alt", "brw", "cgo", "nwr", "hfm" >>
sites == SubSeq(AllSites, 1, NumSites)
SiteSet == { sites[j] : j \in 1..Len(sites) }
SiteIndex(s) == CHOOSE j \in 1..Len(sites) : sites[j] = s

Days == 1..NumDays
Keys == SiteSet \X Days

\* Times of day of the archive's observations: one before the first hourly
\* sample and one between the first and the second
ObsTicks == { TicksPerHour - 1, TicksPerHour + 1 }
Timestamps == { [day |-> d, tick |-> t] : d \in Days, t \in ObsTicks }

\* Frames of up to MaxObs rows, a row being its datetime_utc (possibly missing)
RawFrames == UNION { [1..n -> Timestamps \cup {NaT}] : n \in 0..MaxObs }

\* load_gml_data: rows without a timestamp are dropped
dropna(frame) == SelectSeq(frame, LAMBDA ts : ts # NaT)

NoFile == "absent"
CsvSchemes == { "api", "legacy" }

\* What the provider holds for a date: every hour valid on the odd dates, no
\* hour valid on the even ones
DayKind(d) == IF d % 2 = 1 THEN "full" ELSE "gap"

HourlySeries(s, d) ==
    [ h \in 1..NumPoints |->
        LET valid == IF (h + SiteIndex(s)) % 2 = 0
                     THEN [ws |-> 5, wd |-> 0] ELSE [ws |-> 7, wd |-> 90]
            p == IF DayKind(d) = "full" THEN valid ELSE [ws |-> null, wd |-> 90]
        IN [t |-> h * TicksPerHour, ws |-> p.ws, wd |-> p.wd] ]

\* fetch_hourly_wind: the outcomes of one provider call for a site and date.
\* URLError is turned into SystemExit, a status other than 200 raises
\* RuntimeError, a body without the hourly arrays raises KeyError.
FetchFailures == { "SystemExit", "RuntimeError", "KeyError" }

fetch_hourly_wind(s, d) ==
    { [raised |-> NoError, series |-> HourlySeries(s, d)] }
      \cup { [raised |-> f, series |-> << >>] : f \in FetchFailures }

\* No provider call: nothing is answered
NoReply == [raised |-> NoError, series |-> << >>]

\* Whether api_wind_for_ts(s, ts) has to call the provider
cache_miss(s, ts) == ts # NaT /\ << s, ts.day >> \notin DOMAIN day_cache

NoLookup ==
    [key |-> << "", 0 >>, tick |-> 0, hit |-> FALSE, fetched |-> FALSE,
     series |-> << >>, raised |-> NoError, value |-> << NA, NA >>]

\* api_wind_for_ts that asks the provider on every lookup
api_wind_for_ts_refetch(s, ts, cache, reply) ==
    IF ts = NaT
    THEN [NoLookup EXCEPT !.key = << s, 0 >>] @@ [cache |-> cache]
    ELSE LET day_key == << s, ts.day >>
             look == [NoLookup EXCEPT !.key = day_key, !.tick = ts.tick, !.fetched = TRUE]
         IN IF reply.raised # NoError
            THEN [look EXCEPT !.raised = reply.raised] @@ [cache |-> cache]
            ELSE LET stored == (day_key :> reply.series) @@ cache
                     r == interpolate_wind(stored[day_key], ts.tick)
                     found == [look EXCEPT !.series = stored[day_key]] @@ [cache |-> stored]
                 IN IF r.raised # NoError
                    THEN [found EXCEPT !.raised = r.raised]
                    ELSE IF r.interpolated # None
                    THEN [found EXCEPT !.value = << r.interpolated[3], r.interpolated[4] >>]
                    ELSE [found EXCEPT !.value = << r.nearest[2], r.nearest[3] >>]

\* api_wind_for_ts that stores an empty answer when the provider fails
api_wind_for_ts_poison(s, ts, cache, reply) ==
    IF ts = NaT
    THEN [NoLookup EXCEPT !.key = << s, 0 >>] @@ [cache |-> cache]
    ELSE LET day_key == << s, ts.day >>
             miss == day_key \notin DOMAIN cache
             look == [NoLookup EXCEPT !.key = day_key, !.tick = ts.tick,
                                      !.hit = ~miss, !.fetched = miss]
             stored == IF miss THEN (day_key :> reply.series) @@ cache ELSE cache
         IN IF miss /\ reply.raised # NoError
            THEN [look EXCEPT !.raised = reply.raised] @@ [cache |-> stored]
            ELSE LET r == interpolate_wind(stored[day_key], ts.tick)
                     found == [look EXCEPT !.series = stored[day_key]] @@ [cache |-> stored]
                 IN IF r.raised # NoError
                    THEN [found EXCEPT !.raised = r.raised]
                    ELSE IF r.interpolated # None
                    THEN [found EXCEPT !.value = << r.interpolated[3], r.interpolated[4] >>]
                    ELSE [found EXCEPT !.value = << r.nearest[2], r.nearest[3] >>]

\* api_wind_for_ts(site, ts) on the cache `cache`, `reply` being what the
\* provider answers if it is called.  Gives the value returned or the
\* exception raised, the cache afterwards and whether the provider was called.
api_wind_for_ts(s, ts, cache, reply) ==
    IF ts = NaT
    THEN [NoLookup EXCEPT !.key = << s, 0 >>] @@ [cache |-> cache]
    ELSE LET day_key == << s, ts.day >>
             miss == day_key \notin DOMAIN cache
             look == [NoLookup EXCEPT !.key = day_key, !.tick = ts.tick,
                                      !.hit = ~miss, !.fetched = miss]
         IN IF miss /\ reply.raised # NoError
            THEN [look EXCEPT !.raised = reply.raised] @@ [cache |-> cache]
            ELSE LET stored == IF miss THEN (day_key :> reply.series) @@ cache ELSE cache
                     r == interpolate_wind(stored[day_key], ts.tick)
                     found == [look EXCEPT !.series = stored[day_key]] @@ [cache |-> stored]
                 IN IF r.raised # NoError
                    THEN [found EXCEPT !.raised = r.raised]
                    ELSE IF r.interpolated # None
                    THEN [found EXCEPT !.value = << r.interpolated[3], r.interpolated[4] >>]
                    ELSE IF r.nearest = None
                    THEN [found EXCEPT !.raised = "TypeError"]
                    ELSE [found EXCEPT !.value = << r.nearest[2], r.nearest[3] >>]

ProgressEvery == 250

\* Whether enrich_site_with_api prints progress after row n of total
progress_due(n, total) == n = 1 \/ n % ProgressEvery = 0 \/ n = total

\* api_data.insert(0, pair)
prepend(data, pair) == << pair >> \o data

\* api_data.append(pair)
append(data, pair) == Append(data, pair)

\* an existence test that never finds the artifact
os_path_exists_never(s) == FALSE

\* os.path.exists(csv_path)
os_path_exists(s) == csv[s] # NoFile

----------------------------------------------------------------------------
(* met_comp.py: operations *)

Quiet ==
    /\ pc = "idle" /\ runs = 0 /\ idx = 0 /\ site = "" /\ site_df = << >>
    /\ i = 0 /\ api_data = << >> /\ day_cache = << >> /\ plots = {}
    /\ raised = NoError /\ fetches = [k \in Keys |-> 0] /\ failed = {} /\ last = NoLookup
    /\ had = {} /\ enriched = {} /\ reported = << >>

\* Before the first run: the results directory may hold artifacts written
\* by an earlier version, in the older column scheme
Init ==
    /\ Quiet
    /\ csv \in [SiteSet -> { NoFile, "legacy" }]
    /\ arg = None /\ ret = None

\* fetches counts to CountCap and stays there
count(n) == IF n < CountCap THEN n + 1 ELSE n

\* One iteration of the loop of enrich_site_with_api: the lookup for row
\* i + 1, appended to api_data, and the progress line.  An exception leaves
\* the loop and the function; onRaise is where the caller then stands.
EnrichStep(onRaise) ==
    /\ pc = "enrich" /\ i < Len(site_df)
    /\ LET ts == site_df[i + 1]
       IN \E reply \in IF cache_miss(site, ts)
                        THEN fetch_hourly_wind(site, ts.day) ELSE { NoReply } :
            LET r == api_wind_for_ts(site, ts, day_cache, reply)
            IN /\ day_cache' = r.cache
               /\ fetches' = IF r.fetched THEN [fetches EXCEPT ![r.key] = count(@)] ELSE fetches
               /\ failed' = IF r.fetched /\ reply.raised # NoError
                             THEN failed \cup { r.key } ELSE failed
               /\ last' = [f \in DOMAIN NoLookup |-> r[f]]
               /\ IF r.raised # NoError
                  THEN /\ raised' = r.raised
                       /\ pc' = onRaise
                       /\ UNCHANGED << i, api_data, reported >>
                  ELSE /\ api_data' = append(api_data, r.value)
                       /\ i' = i + 1
                       /\ reported' = IF progress_due(i + 1, Len(site_df))
                                      THEN Append(reported, i + 1) ELSE reported
                       /\ UNCHANGED << pc, raised >>
    /\ UNCHANGED << runs, idx, site, site_df, csv, plots, had, enriched, arg, ret >>

\* main up to its loop: the cache is cleared and the archive loaded
RunMain ==
    /\ pc \in { "idle", "exited", "crashed" }
    /\ runs < MaxRuns
    /\ runs' = runs + 1
    /\ pc' = "loop"
    /\ idx' = 1
    /\ day_cache' = << >>
    /\ raised' = NoError
    /\ fetches' = [k \in Keys |-> 0]
    /\ failed' = {}
    /\ last' = NoLookup
    /\ had' = { s \in SiteSet : csv[s] # NoFile }
    /\ enriched' = {}
    /\ site' = "" /\ site_df' = << >> /\ i' = 0 /\ api_data' = << >> /\ reported' = << >>
    /\ UNCHANGED << csv, plots, arg, ret >>

\* The artifact of sites[idx] exists: it is read, its provider columns are
\* renamed from the older scheme if need be, it is written back and plotted
SiteCached ==
    /\ pc = "loop" /\ idx <= Len(sites)
    /\ os_path_exists(sites[idx])
    /\ csv' = [csv EXCEPT ![sites[idx]] = "api"]
    /\ plots' = plots \cup { sites[idx] }
    /\ idx' = idx + 1
    /\ UNCHANGED << pc, runs, site, site_df, i, api_data, day_cache, raised, fetches, failed, last, had, enriched, reported, arg, ret >>

\* No artifact and no archive row for sites[idx]: the site is skipped
SiteEmpty ==
    /\ pc = "loop" /\ idx <= Len(sites)
    /\ ~os_path_exists(sites[idx])
    /\ \E raw \in RawFrames : dropna(raw) = << >>
    /\ idx' = idx + 1
    /\ UNCHANGED << pc, runs, site, site_df, i, api_data, day_cache, csv, plots, raised,
                    fetches, failed, last, had, enriched, reported, arg, ret >>

\* No artifact: the rows of sites[idx] are selected from the archive (gml_df
\* is read only here, once per site and run, so the rows are drawn here) and
\* enrich_site_with_api is entered
SiteMiss ==
    /\ pc = "loop" /\ idx <= Len(sites)
    /\ ~os_path_exists(sites[idx])
    /\ \E raw \in RawFrames :
         /\ dropna(raw) # << >>
         /\ site_df' = dropna(raw)
    /\ site' = sites[idx]
    /\ i' = 0 /\ api_data' = << >> /\ reported' = << >>
    /\ enriched' = enriched \cup { sites[idx] }
    /\ pc' = "enrich"
    /\ UNCHANGED << runs, idx, day_cache, csv, plots, raised, fetches, failed, last,
                    had, arg, ret >>

\* An exception in the lookup is caught nowhere in main: it ends the run
MainEnrichStep == EnrichStep("crashed")

\* enrich_site_with_api returns: the artifact is written and plotted.  The
\* frame and the loop's variables are not read again.
SiteEnriched ==
    /\ pc = "enrich" /\ i = Len(site_df)
    /\ csv' = [csv EXCEPT ![site] = "api"]
    /\ plots' = plots \cup { site }
    /\ idx' = idx + 1
    /\ pc' = "loop"
    /\ site' = "" /\ site_df' = << >> /\ i' = 0 /\ api_data' = << >> /\ reported' = << >>
    /\ last' = NoLookup
    /\ UNCHANGED << runs, day_cache, raised, fetches, failed, had, enriched,
                    arg, ret >>

MainReturn ==
    /\ pc = "loop" /\ idx > Len(sites)
    /\ pc' = "exited"
    /\ UNCHANGED << runs, idx, site, site_df, i, api_data, day_cache, csv, plots, raised,
                    fetches, failed, last, had, enriched, reported, arg, ret >>

Next ==
    \/ RunMain
    \/ SiteCached
    \/ SiteEmpty
    \/ SiteMiss
    \/ MainEnrichStep
    \/ SiteEnriched
    \/ MainReturn

Spec == Init /\ [][Next]_vars

----------------------------------------------------------------------------
(* enrich_site_with_api called directly for one site, any number of times  *)
(* in one process, by a caller that catches what it raises                 *)

InitEnrich ==
    /\ pc = "idle" /\ runs = 0 /\ idx = 0 /\ site \in SiteSet /\ site_df = << >>
    /\ i = 0 /\ api_data = << >> /\ day_cache = << >> /\ plots = {}
    /\ raised = NoError /\ fetches = [k \in Keys |-> 0] /\ failed = {} /\ last = NoLookup
    /\ had = {} /\ enriched = {} /\ reported = << >>
    /\ csv = [s \in SiteSet |-> NoFile]
    /\ arg = None /\ ret = None

\* The frame has at least one row, as in main
CallEnrich ==
    /\ pc = "idle"
    /\ runs < MaxRuns
    /\ runs' = runs + 1
    /\ \E frame \in RawFrames \ { << >> } : site_df' = frame
    /\ pc' = "enrich"
    /\ UNCHANGED << idx, site, i, api_data, day_cache, csv, plots, raised, fetches, failed,
                    last, had, enriched, reported, arg, ret >>

CallerEnrichStep == EnrichStep("raised")

\* site_df[api_cols] = DataFrame(api_data, index=site_df.index); return site_df
EnrichReturn ==
    /\ pc = "enrich" /\ i = Len(site_df)
    /\ ret' = [j \in 1..Len(site_df) |-> << site_df[j], api_data[j] >>]
    /\ pc' = "returned"
    /\ UNCHANGED << runs, idx, site, site_df, i, api_data, day_cache, csv, plots, raised,
                    fetches, failed, last, had, enriched, reported, arg >>

\* The caller has taken the frame, or caught the exception: nothing of the
\* call is left but day_cache
CallerResumes ==
    /\ pc \in { "returned", "raised" }
    /\ pc' = "idle"
    /\ site_df' = << >> /\ i' = 0 /\ api_data' = << >> /\ reported' = << >>
    /\ raised' = NoError
    /\ last' = NoLookup
    /\ ret' = None
    /\ UNCHANGED << runs, idx, site, day_cache, csv, plots, fetches, failed, had, enriched, arg >>

NextEnrich ==
    \/ CallEnrich
    \/ CallerEnrichStep
    \/ EnrichReturn
    \/ CallerResumes

SpecEnrich == InitEnrich /\ [][NextEnrich]_vars

----------------------------------------------------------------------------
(* The engine as a function: one lookup of a target time in a series that  *)
(* is already in the cache                                                 *)

InitEngine ==
    /\ Quiet
    /\ csv = [s \in SiteSet |-> NoFile]
    /\ arg \in [series : SeriesSet, target : Ticks]
    /\ ret = None

Locate ==
    /\ pc = "idle"
    /\ pc' = "done"
    /\ LET ts == [day |-> 1, tick |-> arg.target]
           key == << sites[1], 1 >>
           r == api_wind_for_ts(sites[1], ts, key :> arg.series, [raised |-> NoError, series |-> << >>])
       IN ret' = [engine |-> interpolate_wind(arg.series, arg.target),
                  raised |-> r.raised, value |-> r.value]
    /\ UNCHANGED << runs, idx, site, site_df, i, api_data, day_cache, csv, plots, raised,
                    fetches, failed, last, had, enriched, reported, arg >>

NextEngine == Locate

SpecEngine == InitEngine /\ [][NextEngine]_vars

----------------------------------------------------------------------------
(* interp_direction_deg as a function *)

\* Directions: the multiples of 90 degrees from -90 to 450
Dirs == { 90 * k : k \in -1..5 }

\* frac as numerator and denominator: inside [0, 1], and 2 and -1 outside
Fracs == { << 0, 1 >>, << 1, 4 >>, << 1, 2 >>, << 3, 4 >>, << 1, 1 >>, << 2, 1 >>, << -1, 1 >> }

InitInterp ==
    /\ Quiet
    /\ csv = [s \in SiteSet |-> NoFile]
    /\ arg \in [dir1 : Dirs, dir2 : Dirs, frac : Fracs]
    /\ ret = None

Interpolate ==
    /\ pc = "idle"
    /\ pc' = "done"
    /\ ret' = interp_direction_deg(arg.dir1, arg.dir2, arg.frac)
    /\ UNCHANGED << runs, idx, site, site_df, i, api_data, day_cache, csv, plots, raised,
                    fetches, failed, last, had, enriched, reported, arg >>

NextInterp == Interpolate

SpecInterp == InitInterp /\ [][NextInterp]_vars

----------------------------------------------------------------------------
(* Properties *)

IsDayKey(k) == k \in Keys

\* C1: within one run of main the provider is called exactly once for every
\* (site, date) key that is looked up -- never twice, and once for every key
\* in day_cache and for the key of the last lookup -- and a lookup that finds
\* its key in day_cache calls nobody and reads the series stored there.
C1_OneFetchPerDayKey ==
    /\ \A k \in Keys : fetches[k] <= 1
    /\ \A k \in Keys : k \in DOMAIN day_cache <=> (fetches[k] = 1 /\ k \notin failed)
    /\ IsDayKey(last.key) => fetches[last.key] = 1
    /\ last.hit => (~last.fetched /\ last.series = day_cache[last.key])

\* Two rows of one site on the same date at different times of day have been
\* looked up, the second from the cache, with one provider call
C1_SameDayTwice ==
    /\ pc = "enrich" /\ i = 2
    /\ site_df[1].day = site_df[2].day
    /\ site_df[1].tick # site_df[2].tick
    /\ last.hit /\ last.tick = site_df[2].tick
    /\ fetches[<< site, site_df[1].day >>] = 1

\* A step in which the provider call of a lookup fails
FetchFails ==
    /\ pc = "enrich"
    /\ last'.fetched /\ last'.series = << >> /\ last'.raised \in FetchFailures

\* C2: when the provider call of a lookup fails, the exception reaches the
\* caller of enrich_site_with_api, day_cache is unchanged and holds nothing
\* for that key; and every lookup of a key that day_cache does not hold
\* calls the provider again.
C2_FailedFetchNotCached ==
    [][ /\ FetchFails => /\ pc' = "raised" /\ raised' = last'.raised
                         /\ day_cache' = day_cache
                         /\ last'.key \notin DOMAIN day_cache'
        /\ \A k \in Keys :
             (pc = "enrich" /\ i < Len(site_df) /\ site_df[i + 1] # NaT
                /\ k = << site, site_df[i + 1].day >> /\ k \notin DOMAIN day_cache)
             => (last'.fetched /\ last'.key = k /\ fetches'[k] = count(fetches[k]))
      ]_vars

\* The provider failed for a key, and a later lookup of that key called it
\* again and stored the answer
C2_RetriedAfterFailure ==
    /\ last.fetched /\ last.series # << >>
    /\ last.key \in failed
    /\ fetches[last.key] = 2
    /\ last.key \in DOMAIN day_cache

\* The last lookup read a series without a single valid point
ZeroValidPoints == last.series # << >> /\ valid_points(last.series) = << >>

\* C3: a lookup in a series with no valid point gives the absent pair and
\* raises nothing, so that enrich_site_with_api goes on with the next row.
C3_NoValidPointIsMissing ==
    ZeroValidPoints => (last.raised = NoError /\ last.value = << NA, NA >> /\ raised = NoError)

\* C4: a provider failure while main processes a site does not end the run
\* with sites still queued behind that site.
C4_FailureAbortsOneSite ==
    ~ ( /\ pc = "crashed"
        /\ last.fetched /\ last.series = << >> /\ last.raised \in FetchFailures
        /\ idx < Len(sites) )

\* The pair api_wind_for_ts returns from a nearest result for point p
PairOf(p) == << p.ws * 1000, p.wd * 1000 >>

\* C5: for a target before the first or after the last valid point the
\* engine gives no bracketed result and a nearest result equal to that
\* boundary point, which is what api_wind_for_ts returns.
C5_OutsideRangeIsNearest ==
    LET vp == valid_points(arg.series)
        first == vp[1]
        final == vp[Len(vp)]
    IN (pc = "done" /\ Len(vp) >= 1 /\ (arg.target < first.t \/ arg.target > final.t))
       => LET b == IF arg.target < first.t THEN first ELSE final
          IN /\ ret.raised = NoError
             /\ ret.engine.interpolated = None
             /\ ret.engine.nearest = << b.t, b.ws * 1000, b.wd * 1000 >>
             /\ ret.value = PairOf(b)

\* C6: a series with exactly one valid point gives, for every target, no
\* bracketed result, a nearest result equal to that point, and no failure.
C6_SinglePointIsNearest ==
    LET vp == valid_points(arg.series)
    IN (pc = "done" /\ Len(vp) = 1)
       => /\ ret.raised = NoError
          /\ ret.engine.interpolated = None
          /\ ret.engine.nearest = << vp[1].t, vp[1].ws * 1000, vp[1].wd * 1000 >>
          /\ ret.value = PairOf(vp[1])

\* C7: a site whose artifact existed when the run started is never handed
\* to enrich_site_with_api in that run, no provider call is made for any of
\* its keys, and its artifact is still there.
C7_ArtifactReused ==
    \A s \in had :
        /\ s \notin enriched
        /\ \A d \in Days : fetches[<< s, d >>] = 0
        /\ csv[s] # NoFile

\* A second run has come to its end having found the artifact of every site
C7_RerunFromArtifacts ==
    /\ runs = 2 /\ pc = "exited"
    /\ had = SiteSet
    /\ plots = SiteSet

\* The pair the lookup for a row has to give, from the provider's data
Looked(s, ts) ==
    IF ts = NaT THEN << NA, NA >>
    ELSE LET r == interpolate_wind(HourlySeries(s, ts.day), ts.tick)
         IN IF r.interpolated # None
            THEN << r.interpolated[3], r.interpolated[4] >>
            ELSE << r.nearest[2], r.nearest[3] >>

\* C8: enrich_site_with_api collects one pair per row in row order -- after
\* i rows api_data has i pairs, the j-th being the lookup for the j-th
\* timestamp, a missing timestamp included -- and the frame it returns has
\* as many rows as its input, row j carrying the pair of row j.
C8_OnePairPerRow ==
    /\ pc = "enrich" => /\ Len(api_data) = i
                        /\ \A j \in 1..i : api_data[j] = Looked(site, site_df[j])
    /\ pc = "returned"
         => /\ Len(ret) = Len(site_df)
            /\ \A j \in 1..Len(ret) : ret[j] = << site_df[j], Looked(site, site_df[j]) >>

\* A frame whose first row has no timestamp and whose second has one has
\* been returned, the two rows with different pairs
C8_ReturnedWithMissingRow ==
    /\ pc = "returned" /\ Len(ret) = 2
    /\ ret[1][1] = NaT /\ ret[2][1] # NaT
    /\ ret[1][2] = << NA, NA >> /\ ret[2][2] # << NA, NA >>

\* C9: interp_direction_deg returns a value in [0, 360), never 360.
C9_DirectionInRange ==
    pc = "done" => (0 <= ret /\ ret < 360000)

\* C10: when the two points of the bracket have the same timestamp, equal
\* to the target, the engine does not fail and gives the first point's speed
\* and direction as the bracketed result.
C10_ZeroDurationBracket ==
    LET vp == valid_points(arg.series)
        brackets == { j \in 1..(Len(vp) - 1) : vp[j].t <= arg.target /\ arg.target <= vp[j + 1].t }
    IN (pc = "done" /\ brackets # {} /\ vp[Min(brackets)].t = vp[Min(brackets) + 1].t)
       => LET p0 == vp[Min(brackets)]
          IN /\ ret.raised = NoError
             /\ ret.engine.raised = NoError
             /\ ret.engine.interpolated # None
             /\ ret.value = PairOf(p0)

====
